---- MODULE Spec2Model ----
(***************************************************************************)
(* Model of the mass-targeted optimizer (src/src/optimizer.py) working on  *)
(* a Structure (src/src/model.py) and calling the linear solver            *)
(* (src/src/solver.py).                                                    *)
(*                                                                         *)
(* A Structure is a record [nodes, springs]: nodes is the dict id -> Node  *)
(* (a function whose domain is the set of ids), springs the ordered list   *)
(* of <<i, j>> id pairs.  Node masses are naturals, coordinates are grid   *)
(* points.  The floating point results of the sparse solve are not         *)
(* computed: whether the numerical solve of a given structure succeeds is  *)
(* an unknown but fixed function of the structure, recorded in solveLog    *)
(* the first time that structure is solved.  The eff-ascending sort is     *)
(* any order of the candidates, because eff is computed from the           *)
(* displacement values.                                                    *)
(***************************************************************************)
EXTENDS Integers, Sequences, FiniteSets, TLC

\* ------------------------------------------------------------------ bounds
NumNodes == 4
MaxTarget == 3
MaxStepsBound == 2
MaxMass == 100
LongChain == 123
MantissaBits == 3

\* ------------------------------------------------------- program constants
batch_fraction_permille == 12
batch_min == 8
batch_max == 120
rollback_halving == 8
top_n_candidates == 400
stagnation_patience == 80
prune_rounds_batch == 20
prune_rounds_trial == 30
prune_rounds_final == 120

\* ----------------------------------------------------------------- helpers
Range(f) == {f[i] : i \in DOMAIN f}

Max2(a, b) == IF a >= b THEN a ELSE b

Min2(a, b) == IF a <= b THEN a ELSE b

\* the sum of f over the set S of ids; a large set is summed as its lower
\* and its upper half, which keeps the evaluation shallow
RECURSIVE SumOver(_, _)
SumOver(f, S) ==
  IF S = {} THEN 0
  ELSE IF Cardinality(S) <= 8
    THEN LET n == CHOOSE m \in S : TRUE IN f[n] + SumOver(f, S \ {n})
  ELSE LET lo == CHOOSE n \in S : \A m \in S : n <= m
           hi == CHOOSE n \in S : \A m \in S : m <= n
           mid == (lo + hi) \div 2
       IN SumOver(f, {n \in S : n <= mid}) + SumOver(f, {n \in S : n > mid})

\* all orderings of a finite set, as sequences without repetition
Orderings(S) ==
  {f \in [1..Cardinality(S) -> S] : \A a, b \in 1..Cardinality(S) : a # b => f[a] # f[b]}

Prefix(seq, n) == SubSeq(seq, 1, Min2(n, Len(seq)))

NoStruct == [nodes |-> <<>>, springs |-> <<>>, none |-> TRUE]

\* ------------------------------------------------------------ model.py
Node(x, z, fixed_x, fixed_z, mass) ==
  [x |-> x, z |-> z, fixed_x |-> fixed_x, fixed_z |-> fixed_z, mass |-> mass]

Structure(nodes, springs) == [nodes |-> nodes, springs |-> springs]

Ids(s) == DOMAIN s.nodes

total_mass(s) == SumOver([n \in Ids(s) |-> s.nodes[n].mass], Ids(s))

\* variant: only the springs that start at the node are dropped
remove_node_OneEnd(s, node_id) ==
  IF node_id \notin Ids(s) THEN s
  ELSE Structure([n \in Ids(s) \ {node_id} |-> s.nodes[n]],
                 SelectSeq(s.springs, LAMBDA sp : sp[1] # node_id))

remove_node(s, node_id) ==
  IF node_id \notin Ids(s) THEN s
  ELSE Structure([n \in Ids(s) \ {node_id} |-> s.nodes[n]],
                 SelectSeq(s.springs, LAMBDA sp : sp[1] # node_id /\ sp[2] # node_id))

\* every spring between two present nodes makes each end a neighbour of the
\* other
adjacency(s) ==
  LET live == {sp \in Range(s.springs) : sp[1] \in Ids(s) /\ sp[2] \in Ids(s)}
  IN [n \in Ids(s) |->
        {sp[2] : sp \in {e \in live : e[1] = n}} \cup {sp[1] : sp \in {e \in live : e[2] = n}}]

\* ------------------------------------------------------------ optimizer.py
RECURSIVE _dfs(_, _)
_dfs(adj, seen) ==
  LET more == seen \cup UNION {adj[n] : n \in seen \cap DOMAIN adj}
  IN IF more = seen THEN seen ELSE _dfs(adj, more)

\* variant: one reachable protected node is enough (any instead of all)
is_connectivity_ok_any(s, prot) ==
  LET present == prot \cap Ids(s)
  IN IF present = {} THEN TRUE
     ELSE LET anchor == CHOOSE p \in present : TRUE
          IN present \cap _dfs(adjacency(s), {anchor}) # {}

is_connectivity_ok(s, prot) ==
  LET present == prot \cap Ids(s)
  IN IF present = {} THEN TRUE
     ELSE LET anchor == CHOOSE p \in present : TRUE
          IN present \subseteq _dfs(adjacency(s), {anchor})

_split_supports(s, prot) ==
  {n \in prot \cap Ids(s) : s.nodes[n].fixed_x \/ s.nodes[n].fixed_z}

_split_loads(s, prot) == (prot \cap Ids(s)) \ _split_supports(s, prot)

_lastpath_mask(s, prot) ==
  LET supports == _split_supports(s, prot)
      loads == _split_loads(s, prot)
  IN IF supports = {} \/ loads = {} THEN Ids(s)
     ELSE _dfs(adjacency(s), supports) \cap _dfs(adjacency(s), loads)

RECURSIVE RemoveAll(_, _)
RemoveAll(s, S) ==
  IF S = {} THEN s
  ELSE LET n == CHOOSE m \in S : TRUE IN RemoveAll(remove_node(s, n), S \ {n})

\* variant: the pruning does not spare the protected nodes
RECURSIVE _prune_degree0_unguarded(_, _, _)
_prune_degree0_unguarded(s, prot, rounds) ==
  IF rounds = 0 THEN s
  ELSE LET adj == adjacency(s)
           to_remove == {n \in Ids(s) : Cardinality(adj[n]) = 0}
       IN IF to_remove = {} THEN s
          ELSE _prune_degree0_unguarded(RemoveAll(s, to_remove), prot, rounds - 1)

RECURSIVE _prune_degree0(_, _, _)
_prune_degree0(s, prot, rounds) ==
  IF rounds = 0 THEN s
  ELSE LET adj == adjacency(s)
           to_remove == {n \in Ids(s) : n \notin prot /\ Cardinality(adj[n]) = 0}
       IN IF to_remove = {} THEN s
          ELSE _prune_degree0(RemoveAll(s, to_remove), prot, rounds - 1)

\* variant: the final cleanup removes the isolated nodes only
RECURSIVE _prune_degree01_final_Isolated(_, _, _)
_prune_degree01_final_Isolated(s, prot, rounds) ==
  LET adj == adjacency(s)
      to_remove == {n \in Ids(s) : n \notin prot /\ Cardinality(adj[n]) = 0}
  IN IF rounds = 0 \/ to_remove = {} THEN s
     ELSE IF rounds = 1 THEN RemoveAll(s, to_remove)
     ELSE _prune_degree01_final_Isolated(
            _prune_degree01_final_Isolated(s, prot, rounds \div 2),
            prot, rounds - rounds \div 2)

\* The loop of at most `rounds` rounds, each removing every non-protected
\* node of degree <= 1 and the first round with nothing to remove ending
\* it.  The rounds are taken in two halves, which is the same sequence of
\* rounds and keeps the evaluation shallow for rounds = 120.
RECURSIVE _prune_degree01_final(_, _, _)
_prune_degree01_final(s, prot, rounds) ==
  LET adj == adjacency(s)
      to_remove == {n \in Ids(s) : n \notin prot /\ Cardinality(adj[n]) <= 1}
  IN IF rounds = 0 \/ to_remove = {} THEN s
     ELSE IF rounds = 1 THEN RemoveAll(s, to_remove)
     ELSE _prune_degree01_final(_prune_degree01_final(s, prot, rounds \div 2),
                                prot, rounds - rounds \div 2)

\* ceil(batch_fraction * n_nodes) with batch_fraction = 0.012
CeilFraction(n_nodes) == (batch_fraction_permille * n_nodes + 999) \div 1000

\* variant: the mass_ratio thresholds are inclusive
compute_k_Inclusive(cur_mass, n_nodes, start, target) ==
  LET rem_lt(p) == (cur_mass - target) * 100 < p * cur_mass
      ratio_lt(p) == cur_mass * 100 <= p * start
      k0 == Max2(batch_min, Min2(batch_max, CeilFraction(n_nodes)))
      k1 == IF rem_lt(20) THEN Min2(k0, 25) ELSE k0
      k2 == IF rem_lt(8) THEN Min2(k1, 8) ELSE k1
      k3 == IF rem_lt(3) THEN 1 ELSE k2
      k4 == IF ratio_lt(75) THEN Min2(k3, 10) ELSE k3
      k5 == IF ratio_lt(65) THEN Min2(k4, 5) ELSE k4
      k6 == IF ratio_lt(55) THEN 1 ELSE k5
  IN Max2(1, k6)

\* the ratios are compared as cross-multiplied integers:
\*   remaining_ratio < p/100  <=>  (cur_mass - target) * 100 < p * cur_mass
\*   mass_ratio      < p/100  <=>  cur_mass * 100 < p * start
compute_k(cur_mass, n_nodes, start, target) ==
  LET rem_lt(p) == (cur_mass - target) * 100 < p * cur_mass
      ratio_lt(p) == cur_mass * 100 < p * start
      k0 == Max2(batch_min, Min2(batch_max, CeilFraction(n_nodes)))
      k1 == IF rem_lt(20) THEN Min2(k0, 25) ELSE k0
      k2 == IF rem_lt(8) THEN Min2(k1, 8) ELSE k1
      k3 == IF rem_lt(3) THEN 1 ELSE k2
      k4 == IF ratio_lt(75) THEN Min2(k3, 10) ELSE k3
      k5 == IF ratio_lt(65) THEN Min2(k4, 5) ELSE k4
      k6 == IF ratio_lt(55) THEN 1 ELSE k5
  IN Max2(1, k6)

\* ------------------------------------------------------------ solver.py
\* _spring_element_matrix raises ValueError when the two ends coincide
HasZeroLengthSpring(s) ==
  \E q \in 1..Len(s.springs) :
     LET a == s.nodes[s.springs[q][1]]
         b == s.nodes[s.springs[q][2]]
     IN a.x = b.x /\ a.z = b.z

\* the free DOFs: 2p for a node without fixed_x, 2p+1 for one without fixed_z
NoFreeDof(s) == \A n \in Ids(s) : s.nodes[n].fixed_x /\ s.nodes[n].fixed_z

\* variant: the early return for "no free DOF" comes before the assembly
SolveResults_FreeFirst(s, log) ==
  IF NoFreeDof(s) THEN {TRUE}
  ELSE IF HasZeroLengthSpring(s) THEN {FALSE}
  ELSE IF \E e \in log : e.s = s THEN {e.ok : e \in {d \in log : d.s = s}}
  ELSE {TRUE, FALSE}

\* The possible results of _is_solvable(s): FALSE when assembling raises,
\* TRUE when no DOF is free, else what the numerical solve gave for this
\* structure before, or either result when it is solved for the first time.
SolveResults(s, log) ==
  IF HasZeroLengthSpring(s) THEN {FALSE}
  ELSE IF NoFreeDof(s) THEN {TRUE}
  ELSE IF \E e \in log : e.s = s THEN {e.ok : e \in {d \in log : d.s = s}}
  ELSE {TRUE, FALSE}

\* ------------------------------------------------------------ the inputs
NodeIds == 1..NumNodes

\* the spring layouts of the input structures (chain, ring, strip, split,
\* and tail: a chain that leaves the last node isolated); the spring that
\* closes the ring is stored from the higher id to the lower one
ShapeSprings(shape) ==
  LET up == {<<i, j>> \in NodeIds \X NodeIds : i < j}
  IN CASE shape = "chain" -> {e \in up : e[2] = e[1] + 1}
       [] shape = "ring" -> {e \in up : e[2] = e[1] + 1} \cup {<<NumNodes, 1>>}
       [] shape = "strip" -> {e \in up : e[2] - e[1] <= 2}
       [] shape = "split" -> {e \in up : e[2] = e[1] + 1 /\ e[1] # 2}
       [] shape = "tail" -> {e \in up : e[2] = e[1] + 1 /\ e[2] # NumNodes}
       [] OTHER -> {}

\* a set of springs as the list in ascending order of (i, j)
RECURSIVE SpringList(_)
SpringList(E) ==
  IF E = {} THEN <<>>
  ELSE LET first == CHOOSE e \in E : \A f \in E :
                       e[1] < f[1] \/ (e[1] = f[1] /\ e[2] <= f[2])
       IN <<first>> \o SpringList(E \ {first})

\* node attributes of the input structures: a two-column grid whose node 1
\* is fixed in both axes and node 2 in z ("grid"), the same with no fixity
\* and every second node massless ("free"), all nodes fixed ("clamped"), and
\* a grid whose two columns coincide ("folded"), the same with all nodes
\* fixed ("stacked")
InputNode(kind, n) ==
  Node(IF kind \in {"folded", "stacked"} THEN 0 ELSE (n - 1) % 2,
       (n - 1) \div 2,
       kind \in {"clamped", "stacked"} \/ (kind \in {"grid", "folded"} /\ n = 1),
       kind \in {"clamped", "stacked"} \/ (kind \in {"grid", "folded"} /\ n <= 2),
       IF kind = "free" THEN n % 2 ELSE 1)

\* the catalogue of input structures: node attributes and spring layout
Catalogue ==
  {<<"grid", "chain">>, <<"clamped", "strip">>, <<"folded", "ring">>,
   <<"free", "split">>, <<"stacked", "chain">>,
   <<"grid", "tail">>}

InputStructures ==
  {Structure([n \in NodeIds |-> InputNode(c[1], n)], SpringList(ShapeSprings(c[2]))) :
     c \in Catalogue}

\* ------------------------------------------------------------ the state
VARIABLES
  struct,        \* the caller's structure
  protected,     \* argument: ids that must not be removed
  target_mass,   \* argument
  max_steps,     \* argument
  pc,            \* position in optimize_until_target
  start_mass,
  current,       \* the working structure
  snapshot,      \* copy taken at the start of a batch attempt
  disp,          \* key set of the displacement map held by the driver
  steps,
  stalled,
  removable,     \* the sorted candidate list of this iteration
  pool,
  attempt_k,
  attempt,       \* number of batch attempts started in this iteration
  removed,
  success,
  candidates,    \* the expanded stagnation list
  cidx,          \* position of the stagnation loop in candidates
  ret,           \* the returned triple
  solveLog,      \* results of the solves made so far
  committed,     \* history: the committed structures, oldest first
  aliased,       \* `current` is the caller's own object, not a copy of it
  cancel_requested, \* environment: the caller asked the run to stop
  k_in,          \* compute_k on its own: the arguments
  k_out,         \* compute_k on its own: the result
  sd,            \* solve_displacements on its own: the state of the call
  en             \* the scoring step on its own: arguments and results

vars == <<struct, protected, target_mass, max_steps, pc, start_mass, current,
          snapshot, disp, steps, stalled, removable, pool, attempt_k, attempt,
          removed, success, candidates, cidx, ret, solveLog, committed, aliased,
          cancel_requested, k_in, k_out, sd, en>>

\* what no step of optimize_until_target writes
env == <<cancel_requested, k_in, k_out, sd, en>>

args == <<struct, protected, target_mass, max_steps>>

\* the arguments that are values
params == <<protected, target_mass, max_steps>>

iter == <<removable, pool, attempt_k, attempt, removed, success,
          candidates, cidx>>

NoK == [cur_mass |-> 0, n_nodes |-> 0, start |-> 0, target |-> 0]

\* the state of a call of solve_displacements: its position, the build
\* (_HAS_SCIPY), the argument, the number of solves made and of regularized
\* ones among them, the except clause that was entered, what the library
\* solve returned and whether it is finite, the results u and disp, and the
\* exception that left the call
SolveCall(at, scipy, s) ==
  [pc |-> at, has_scipy |-> scipy, struct |-> s, attempts |-> 0, regularized |-> 0,
   handler |-> "none", raw |-> <<>>, finite |-> TRUE, u |-> <<>>, disp |-> <<>>,
   error |-> "none"]

\* no call of solve_displacements is under way
NoSolve == SolveCall("idle", TRUE, NoStruct)

\* the arguments of _spring_energies and _node_scores (the ids of the
\* structure, its spring list, the energy of each stored spring) and their
\* results
Scoring(at, ids, springs, E) ==
  [pc |-> at, ids |-> ids, springs |-> springs, E |-> E, energies |-> <<>>,
   scores |-> <<>>]

NoScoring == Scoring("idle", {}, <<>>, <<>>)

NoRet == [structure |-> NoStruct, steps |-> 0, status |-> "running"]

Returned(s, n, status) == [structure |-> s, steps |-> n, status |-> status]

Init ==
  /\ struct \in InputStructures
  /\ protected \in SUBSET NodeIds
  /\ target_mass \in 0..MaxTarget
  /\ max_steps \in 1..MaxStepsBound
  /\ pc = "start"
  /\ start_mass = 0
  /\ current = NoStruct
  /\ snapshot = NoStruct
  /\ disp = {}
  /\ steps = 0
  /\ stalled = 0
  /\ removable = <<>>
  /\ pool = <<>>
  /\ attempt_k = 0
  /\ attempt = 0
  /\ removed = 0
  /\ success = FALSE
  /\ candidates = <<>>
  /\ cidx = 0
  /\ ret = NoRet
  /\ solveLog = {}
  /\ committed = <<>>
  /\ aliased = FALSE
  /\ cancel_requested = FALSE
  /\ k_in = NoK
  /\ k_out = 0
  /\ sd = NoSolve
  /\ en = NoScoring

\* ------------------------------------------------- optimize_until_target
\* variant: the early return misses the case of equal masses
AlreadyAtTarget_Strict(mass, target) == mass < target

\* line 187: the early-return test
AlreadyAtTarget(mass, target) == mass <= target

\* variant: the step bound is tested off by one
LoopCondition_OffByOne(mass, target, n, bound) == mass > target /\ n <= bound

\* line 232: the loop condition
LoopCondition(mass, target, n, bound) == mass > target /\ n < bound

\* variant: the halving is not floored at 1
Halved_Unfloored(k) == k \div 2

\* lines 297 and 311: attempt_k = max(1, attempt_k // 2)
Halved(k) == Max2(1, k \div 2)

\* variant: the rollback is forgotten
Restored_Kept(snap, cur) == cur

\* lines 289, 296 and 310: current = snapshot
Restored(snap, cur) == snap

\* variant: disp is replaced before the result of the solve is tested
DispAfterSolve_Always(ok, old, s) == Ids(s)

\* lines 302-304 and 344-347: disp is replaced only by a successful solve
DispAfterSolve(ok, old, s) == IF ok THEN Ids(s) ELSE old

\* variant: the step is not counted
StepsAfterAccept_Forgotten(n) == n

\* lines 305 and 348: steps += 1
StepsAfterAccept(n) == n + 1

\* variant: a rejected candidate ends the scan (break instead of continue)
AfterRejected_Break(i, n) == n + 1

\* lines 332-345: a rejected candidate is skipped, the scan goes on
AfterRejected(i, n) == i + 1

\* variant: the working structure is the caller's object itself
CopiedInputShares_Reference == TRUE

\* line 190: copy.deepcopy(struct) is a new object that shares nothing with
\* the caller's
CopiedInputShares == FALSE

\* A method that changes the object `current` refers to changes the
\* caller's structure as well when the two are one object: the caller's
\* structure after the object became obj
SeenByCaller(shared, obj, caller) == IF shared THEN obj ELSE caller

\* lines 186-188: nothing to do, the caller's structure is handed back
ReturnAlready ==
  /\ pc = "start"
  /\ AlreadyAtTarget(total_mass(struct), target_mass)
  /\ start_mass' = total_mass(struct)
  /\ ret' = Returned(struct, 0, "already")
  /\ pc' = "done"
  /\ UNCHANGED <<args, env, current, aliased, snapshot, disp, steps, stalled, iter,
                 solveLog, committed>>

\* line 190: current = copy.deepcopy(struct)
CopyInput ==
  /\ pc = "start"
  /\ ~AlreadyAtTarget(total_mass(struct), target_mass)
  /\ start_mass' = total_mass(struct)
  /\ current' = struct
  /\ aliased' = CopiedInputShares
  /\ pc' = "validate_conn"
  /\ UNCHANGED <<args, env, snapshot, disp, steps, stalled, iter, ret, solveLog,
                 committed>>

\* lines 193-194
ValidateConnectivity ==
  /\ pc = "validate_conn"
  /\ IF is_connectivity_ok(current, protected)
       THEN pc' = "validate_solve" /\ ret' = ret
       ELSE pc' = "done" /\ ret' = Returned(NoStruct, 0, "not_connected")
  /\ UNCHANGED <<args, env, start_mass, current, aliased, snapshot, disp, steps, stalled, iter,
                 solveLog, committed>>

\* lines 196-207
ValidateSolve ==
  /\ pc = "validate_solve"
  /\ \E ok \in SolveResults(current, solveLog) :
       /\ solveLog' = solveLog \cup {[s |-> current, ok |-> ok]}
       /\ disp' = DispAfterSolve(ok, disp, current)
       /\ IF ok
            THEN /\ committed' = <<current>>
                 /\ pc' = "loop"
                 /\ ret' = ret
            ELSE /\ committed' = committed
                 /\ pc' = "done"
                 /\ ret' = Returned(NoStruct, 0, "not_solvable")
  /\ steps' = 0
  /\ stalled' = 0
  /\ UNCHANGED <<args, env, start_mass, current, aliased, snapshot, iter>>

\* line 232, the loop condition fails
LoopExit ==
  /\ pc = "loop"
  /\ ~LoopCondition(total_mass(current), target_mass, steps, max_steps)
  /\ pc' = "finish"
  /\ UNCHANGED <<args, env, start_mass, current, aliased, snapshot, disp, steps, stalled, iter,
                 ret, solveLog, committed>>

\* lines 259-262
removable_all(s, prot) == Ids(s) \ prot

\* variant: no fall-back to all non-protected nodes
removable_of_NoFallback(s, prot) ==
  removable_all(s, prot) \cap _lastpath_mask(s, prot)

removable_of(s, prot) ==
  LET masked == removable_all(s, prot) \cap _lastpath_mask(s, prot)
  IN IF masked # {} THEN masked ELSE removable_all(s, prot)

\* lines 264-265
ReturnNoRemovable ==
  /\ pc = "loop"
  /\ LoopCondition(total_mass(current), target_mass, steps, max_steps)
  /\ removable_of(current, protected) = {}
  /\ ret' = Returned(current, steps, "no_removable")
  /\ pc' = "done"
  /\ UNCHANGED <<args, env, start_mass, current, aliased, snapshot, disp, steps, stalled, iter,
                 solveLog, committed>>

base_pool == Max2(150, top_n_candidates)

\* lines 233-274: score, sort the candidates by eff, size the batch
Score ==
  /\ pc = "loop"
  /\ LoopCondition(total_mass(current), target_mass, steps, max_steps)
  /\ removable_of(current, protected) # {}
  /\ \E sorted \in Orderings(removable_of(current, protected)) :
       /\ removable' = sorted
       /\ pool' = Prefix(sorted, Min2(Len(sorted), base_pool))
  /\ attempt_k' = compute_k(total_mass(current), Cardinality(Ids(current)),
                            start_mass, target_mass)
  /\ success' = FALSE
  /\ attempt' = 0
  /\ pc' = "attempt"
  /\ UNCHANGED <<args, env, start_mass, current, aliased, snapshot, disp, steps, stalled, removed,
                 candidates, cidx, ret, solveLog, committed>>

\* lines 280-293: the loop over the pool, from position i with `removed`
\* removals made; the result is the structure `current` refers to at the
\* end, the removal count, the object the removals were made on, and
\* whether `current` was bound to the snapshot (lines 289-290)
RECURSIVE BatchLoop(_, _, _, _, _, _, _)
BatchLoop(s, snap, nids, i, n_removed, k, prot) ==
  IF i > Len(nids) \/ n_removed >= k
    THEN [s |-> s, removed |-> n_removed, obj |-> s, rebound |-> FALSE]
  ELSE IF nids[i] \notin Ids(s) \/ nids[i] \in prot
    THEN BatchLoop(s, snap, nids, i + 1, n_removed, k, prot)
  ELSE IF ~is_connectivity_ok(remove_node(s, nids[i]), prot)
    THEN [s |-> Restored(snap, remove_node(s, nids[i])), removed |-> 0,
          obj |-> remove_node(s, nids[i]), rebound |-> TRUE]
  ELSE BatchLoop(remove_node(s, nids[i]), snap, nids, i + 1, n_removed + 1, k, prot)

\* variant: the batch loop is allowed one attempt more
AttemptRemove_Extra ==
  /\ pc = "attempt"
  /\ attempt <= rollback_halving + 1
  /\ attempt' = attempt + 1
  /\ snapshot' = current
  /\ LET r == BatchLoop(current, current, pool, 1, 0, attempt_k, protected)
     IN /\ current' = r.s
        /\ removed' = r.removed
        /\ struct' = SeenByCaller(aliased, r.obj, struct)
        /\ aliased' = (aliased /\ ~r.rebound)
  /\ pc' = "attempt_end"
  /\ UNCHANGED <<params, env, start_mass, disp, steps, stalled, removable, pool,
                 attempt_k, success, candidates, cidx, ret, solveLog, committed>>

\* lines 276-293: the next batch attempt: snapshot, then the removals
AttemptRemove ==
  /\ pc = "attempt"
  /\ attempt < rollback_halving + 1
  /\ attempt' = attempt + 1
  /\ snapshot' = current
  /\ LET r == BatchLoop(current, current, pool, 1, 0, attempt_k, protected)
     IN /\ current' = r.s
        /\ removed' = r.removed
        /\ struct' = SeenByCaller(aliased, r.obj, struct)
        /\ aliased' = (aliased /\ ~r.rebound)
  /\ pc' = "attempt_end"
  /\ UNCHANGED <<params, env, start_mass, disp, steps, stalled, removable, pool,
                 attempt_k, success, candidates, cidx, ret, solveLog, committed>>

\* lines 295-298: nothing was removed
AttemptEmpty ==
  /\ pc = "attempt_end"
  /\ removed = 0
  /\ current' = Restored(snapshot, current)
  /\ aliased' = FALSE
  /\ attempt_k' = Halved(attempt_k)
  /\ pc' = "attempt"
  /\ UNCHANGED <<args, env, start_mass, snapshot, disp, steps, stalled, removable, pool,
                 attempt, removed, success, candidates, cidx, ret, solveLog,
                 committed>>

\* line 300
BatchPrune ==
  /\ pc = "attempt_end"
  /\ removed # 0
  /\ current' = _prune_degree0(current, protected, prune_rounds_batch)
  /\ struct' = SeenByCaller(aliased, current', struct)
  /\ pc' = "batch_solve"
  /\ UNCHANGED <<params, aliased, env, start_mass, snapshot, disp, steps, stalled, iter, ret,
                 solveLog, committed>>

\* lines 302-311
BatchSolve ==
  /\ pc = "batch_solve"
  /\ \E ok \in SolveResults(current, solveLog) :
       /\ solveLog' = solveLog \cup {[s |-> current, ok |-> ok]}
       /\ disp' = DispAfterSolve(ok, disp, current)
       /\ IF ok
            THEN /\ steps' = StepsAfterAccept(steps)
                 /\ stalled' = 0
                 /\ success' = TRUE
                 /\ committed' = Append(committed, current)
                 /\ pc' = "loop"
                 /\ UNCHANGED <<current, aliased, attempt_k>>
            ELSE /\ current' = Restored(snapshot, current)
                 /\ aliased' = FALSE
                 /\ attempt_k' = Halved(attempt_k)
                 /\ pc' = "attempt"
                 /\ UNCHANGED <<steps, stalled, success, committed>>
  /\ UNCHANGED <<args, env, start_mass, snapshot, removable, pool, attempt, removed,
                 candidates, cidx, ret>>

\* lines 322-329: the sorted head, then a random sample of the tail
StagnationLists(sorted, expand_sorted) ==
  LET head == Prefix(sorted, expand_sorted)
      tail == SubSeq(sorted, expand_sorted + 1, Len(sorted))
      sample_n == Min2(2000, Len(tail))
  IN IF Len(sorted) > expand_sorted /\ sample_n > 0
       THEN {head \o pick : pick \in
               UNION {Orderings(T) : T \in {U \in SUBSET Range(tail) :
                                              Cardinality(U) = sample_n}}}
       ELSE {head}

\* lines 313-331: every attempt of the iteration failed
Stagnate ==
  /\ pc = "attempt"
  /\ attempt >= rollback_halving + 1
  /\ stalled' = stalled + 1
  /\ LET expand_sorted ==
           IF stalled + 1 >= stagnation_patience
             THEN Min2(Len(removable), 8000)
             ELSE Min2(Len(removable), Max2(2000, base_pool * 5))
     IN candidates' \in StagnationLists(removable, expand_sorted)
  /\ cidx' = 1
  /\ pc' = "trial"
  /\ UNCHANGED <<args, env, start_mass, current, aliased, snapshot, disp, steps, removable, pool,
                 attempt_k, attempt, removed, success, ret, solveLog, committed>>

\* the trial of lines 336-342 for candidate nid
TrialOf(s, nid, prot) == _prune_degree0(remove_node(s, nid), prot, prune_rounds_trial)

\* lines 332-351: one pass of the loop over the candidates
TrialNext ==
  /\ pc = "trial"
  /\ cidx <= Len(candidates)
  /\ LET nid == candidates[cidx]
         trial == TrialOf(current, nid, protected)
     IN IF \/ nid \in protected
           \/ nid \notin Ids(current)
           \/ ~is_connectivity_ok(remove_node(current, nid), protected)
          THEN /\ cidx' = AfterRejected(cidx, Len(candidates))
               /\ UNCHANGED <<current, aliased, disp, steps, stalled, solveLog, committed, pc>>
          ELSE \E ok \in SolveResults(trial, solveLog) :
                 /\ solveLog' = solveLog \cup {[s |-> trial, ok |-> ok]}
                 /\ disp' = DispAfterSolve(ok, disp, trial)
                 /\ IF ok
                      THEN /\ current' = trial
                           /\ aliased' = FALSE
                           /\ steps' = StepsAfterAccept(steps)
                           /\ stalled' = 0
                           /\ committed' = Append(committed, trial)
                           /\ pc' = "loop"
                           /\ cidx' = cidx
                      ELSE /\ cidx' = AfterRejected(cidx, Len(candidates))
                           /\ UNCHANGED <<current, aliased, steps, stalled, committed, pc>>
  /\ UNCHANGED <<args, env, start_mass, snapshot, removable, pool, attempt_k, attempt,
                 removed, success, candidates, ret>>

\* variant: the exhausted scan is started again instead of returning
ReturnStuck_Retry ==
  /\ pc = "trial"
  /\ cidx > Len(candidates)
  /\ cidx' = 1
  /\ UNCHANGED <<args, env, pc, start_mass, current, aliased, snapshot, disp, steps, stalled,
                 removable, pool, attempt_k, attempt, removed, success, candidates,
                 ret, solveLog, committed>>

\* lines 353-354
ReturnStuck ==
  /\ pc = "trial"
  /\ cidx > Len(candidates)
  /\ ret' = Returned(current, steps, "stuck")
  /\ pc' = "done"
  /\ UNCHANGED <<args, env, start_mass, current, aliased, snapshot, disp, steps, stalled, iter,
                 solveLog, committed>>

\* lines 359-361
ReturnTargetReached ==
  /\ pc = "finish"
  /\ total_mass(current) <= target_mass
  /\ current' = _prune_degree01_final(current, protected, prune_rounds_final)
  /\ struct' = SeenByCaller(aliased, current', struct)
  /\ ret' = Returned(current', steps, "target_reached")
  /\ pc' = "done"
  /\ UNCHANGED <<params, aliased, env, start_mass, snapshot, disp, steps, stalled, iter, solveLog,
                 committed>>

\* line 363
ReturnMaxSteps ==
  /\ pc = "finish"
  /\ total_mass(current) > target_mass
  /\ ret' = Returned(current, steps, "max_steps")
  /\ pc' = "done"
  /\ UNCHANGED <<args, env, start_mass, current, aliased, snapshot, disp, steps, stalled, iter,
                 solveLog, committed>>

\* ---------------------------------------------------- compute_k on its own
\* node counts around the steps of ceil(0.012 * n) and its clamp to 8..120
KNodeCounts == {1, 667, 750, 2084, 10001}

KInputs ==
  {in \in [cur_mass : 1..MaxMass, n_nodes : KNodeCounts,
           start : {MaxMass - 20, MaxMass}, target : 0..MaxMass] :
     in.target < in.cur_mass /\ in.cur_mass <= in.start}

KInit ==
  /\ k_in \in KInputs
  /\ k_out = 0
  /\ pc = "k_start"
  /\ struct = NoStruct
  /\ protected = {}
  /\ target_mass = 0
  /\ max_steps = 1
  /\ start_mass = 0
  /\ current = NoStruct
  /\ snapshot = NoStruct
  /\ disp = {}
  /\ steps = 0
  /\ stalled = 0
  /\ removable = <<>>
  /\ pool = <<>>
  /\ attempt_k = 0
  /\ attempt = 0
  /\ removed = 0
  /\ success = FALSE
  /\ candidates = <<>>
  /\ cidx = 0
  /\ ret = NoRet
  /\ solveLog = {}
  /\ committed = <<>>
  /\ aliased = FALSE
  /\ cancel_requested = FALSE
  /\ sd = NoSolve
  /\ en = NoScoring

\* line 272: k = compute_k(cur_mass, len(current.nodes))
KApply ==
  /\ pc = "k_start"
  /\ k_out' = compute_k(k_in.cur_mass, k_in.n_nodes, k_in.start, k_in.target)
  /\ pc' = "k_done"
  /\ UNCHANGED <<args, cancel_requested, k_in, sd, en, start_mass, current, snapshot,
                 disp, steps, stalled, iter, ret, solveLog, committed, aliased>>

KSpec == KInit /\ [][KApply]_vars

\* the driver's own variables
run == <<pc, start_mass, current, snapshot, disp, steps, stalled, iter, ret,
         solveLog, committed, aliased>>

\* lines 183 and 234-235: the only hook the driver offers at an iteration
\* boundary is progress_callback, whose result is discarded; the caller's
\* wish to stop is raised while the loop has iterations left
RequestCancel ==
  /\ pc = "loop"
  /\ LoopCondition(total_mass(current), target_mass, steps, max_steps)
  /\ ~cancel_requested
  /\ cancel_requested' = TRUE
  /\ UNCHANGED <<args, k_in, k_out, sd, en, run>>

Next ==
  \/ ReturnAlready
  \/ CopyInput
  \/ ValidateConnectivity
  \/ ValidateSolve
  \/ LoopExit
  \/ ReturnNoRemovable
  \/ Score
  \/ AttemptRemove
  \/ AttemptEmpty
  \/ BatchPrune
  \/ BatchSolve
  \/ Stagnate
  \/ TrialNext
  \/ ReturnStuck
  \/ ReturnTargetReached
  \/ ReturnMaxSteps

Spec == Init /\ [][Next]_vars

\* the driver is a sequential loop that is always scheduled
FairSpec == Spec /\ WF_vars(Next)

\* ------------------------------------------------ the end of a long run
\* a chain 1-2-...-len of unit masses on the grid supports
ChainStructure(len) ==
  Structure([n \in 1..len |-> InputNode("grid", n)], [q \in 1..(len - 1) |-> <<q, q + 1>>])

\* The loop head after the only iteration of a call on a chain whose first
\* two nodes are protected, with target_mass one unit below its mass: the
\* batch of size 1 removed the free end, which came first in the eff order,
\* and the solve succeeded.
ChainInit ==
  \E len \in {LongChain - 1, LongChain} :
    /\ struct = ChainStructure(len + 1)
    /\ protected = {1, 2}
    /\ target_mass = len
    /\ max_steps = 1
    /\ pc = "loop"
    /\ start_mass = len + 1
    /\ current = ChainStructure(len)
    /\ snapshot = ChainStructure(len + 1)
    /\ disp = 1..len
    /\ steps = 1
    /\ stalled = 0
    /\ removable = [i \in 1..(len - 1) |-> len + 2 - i]
    /\ pool = [i \in 1..(len - 1) |-> len + 2 - i]
    /\ attempt_k = 1
    /\ attempt = 1
    /\ removed = 1
    /\ success = TRUE
    /\ candidates = <<>>
    /\ cidx = 0
    /\ ret = NoRet
    /\ solveLog = {[s |-> ChainStructure(len + 1), ok |-> TRUE],
                   [s |-> ChainStructure(len), ok |-> TRUE]}
    /\ committed = <<ChainStructure(len + 1), ChainStructure(len)>>
    /\ aliased = FALSE
    /\ cancel_requested = FALSE
    /\ k_in = NoK
    /\ k_out = 0
    /\ sd = NoSolve
    /\ en = NoScoring

\* the runs of Spec together with the end of the runs on the long chains
ChainSpec == (Init \/ ChainInit) /\ [][Next]_vars

NextCancel ==
  \/ Next
  \/ RequestCancel

\* the run with a caller that may ask it to stop
CancelSpec == Init /\ [][NextCancel]_vars

\* ------------------------------------------- solve_displacements on its own
\* the values a displacement component takes in the model
DispValues == {0, 1}

\* model.py lines 49-54: the position of each id in ascending order of ids
id_to_pos(s) == [nid \in Ids(s) |-> Cardinality({m \in Ids(s) : m < nid})]

ndofs(s) == 2 * Cardinality(Ids(s))

\* solver.py lines 121-127: 2p for fixed_x and 2p+1 for fixed_z
fixed_dofs(s) ==
  LET id2pos == id_to_pos(s)
  IN {2 * id2pos[n] : n \in {m \in Ids(s) : s.nodes[m].fixed_x}}
       \cup {2 * id2pos[n] + 1 : n \in {m \in Ids(s) : s.nodes[m].fixed_z}}

\* line 134: the DOFs that are not fixed, in ascending order
free_dofs(s) ==
  LET F == (0..(ndofs(s) - 1)) \ fixed_dofs(s)
  IN [i \in 1..Cardinality(F) |-> CHOOSE d \in F : Cardinality({e \in F : e < d}) = i - 1]

\* variant: the solution is written to the first DOFs instead of the free ones
Scatter_Packed(s, u_f) ==
  [d \in 0..(ndofs(s) - 1) |-> IF d < Len(u_f) THEN u_f[d + 1] ELSE 0]

\* lines 136 and 166: u = zeros(ndofs); u[free] = u_f
Scatter(s, u_f) ==
  LET free == free_dofs(s)
  IN [d \in 0..(ndofs(s) - 1) |->
        IF \E i \in 1..Len(free) : free[i] = d
          THEN u_f[CHOOSE i \in 1..Len(free) : free[i] = d]
          ELSE 0]

\* lines 167 and 195: disp = {nid: (u[2p], u[2p+1])}
DispOf(s, u) ==
  LET id2pos == id_to_pos(s)
  IN [nid \in Ids(s) |-> <<u[2 * id2pos[nid]], u[2 * id2pos[nid] + 1]>>]

\* What the library solve can hand back.  spsolve returns the vector of the
\* free DOFs; np.linalg.solve returns the whole vector of a system whose
\* row of every fixed DOF is the unit row with right-hand side 0 (lines
\* 175-179), so that component of its solution is 0.
Solutions(scipy, s) ==
  IF scipy THEN [1..Len(free_dofs(s)) -> DispValues]
  ELSE {u \in [0..(ndofs(s) - 1) -> DispValues] : \A d \in fixed_dofs(s) : u[d] = 0}

\* How a library solve can end: spsolve returns, raises MatrixRankWarning
\* (turned into an error by the filter of line 148) or raises something
\* else; np.linalg.solve returns or raises LinAlgError, and cannot fail on
\* the unit matrix left when every DOF is fixed.
SolverOutcomes(scipy, s) ==
  IF scipy THEN {"solved", "MatrixRankWarning", "Exception"}
  ELSE IF NoFreeDof(s) THEN {"solved"}
  ELSE {"solved", "LinAlgError"}

\* The exception that leaves the call when the regularized solve raises:
\* line 153 sits in the clause `except MatrixRankWarning` with nothing
\* around it, lines 156-160 and 187-190 turn it into LinAlgError.
RetryError(handler, raised) ==
  IF handler = "MatrixRankWarning" THEN raised ELSE "Singular"

\* the structures handed to the solver: the inputs and what is left of them
\* after removals
SolveInputs ==
  {RemoveAll(s, R) : s \in InputStructures, R \in (SUBSET NodeIds) \ {NodeIds}}

SolveInit ==
  /\ sd \in {SolveCall("entry", scipy, s) : scipy \in BOOLEAN, s \in SolveInputs}
  /\ pc = "sd_call"
  /\ struct = NoStruct
  /\ protected = {}
  /\ target_mass = 0
  /\ max_steps = 1
  /\ start_mass = 0
  /\ current = NoStruct
  /\ snapshot = NoStruct
  /\ disp = {}
  /\ steps = 0
  /\ stalled = 0
  /\ removable = <<>>
  /\ pool = <<>>
  /\ attempt_k = 0
  /\ attempt = 0
  /\ removed = 0
  /\ success = FALSE
  /\ candidates = <<>>
  /\ cidx = 0
  /\ ret = NoRet
  /\ solveLog = {}
  /\ committed = <<>>
  /\ aliased = FALSE
  /\ cancel_requested = FALSE
  /\ k_in = NoK
  /\ k_out = 0
  /\ en = NoScoring

\* what no step of solve_displacements writes
outside == <<args, run, cancel_requested, k_in, k_out, en>>

\* lines 131 and 171: the assembly raises ValueError on a zero-length spring
SdZeroLength ==
  /\ sd.pc = "entry"
  /\ HasZeroLengthSpring(sd.struct)
  /\ sd' = [sd EXCEPT !.pc = "raised", !.error = "ZeroLength"]
  /\ UNCHANGED outside

\* lines 136-139: no free DOF, the zero vector is returned without a solve
SdNoFree ==
  /\ sd.pc = "entry"
  /\ ~HasZeroLengthSpring(sd.struct)
  /\ sd.has_scipy
  /\ Len(free_dofs(sd.struct)) = 0
  /\ sd' = [sd EXCEPT !.pc = "returned",
                      !.u = [d \in 0..(ndofs(sd.struct) - 1) |-> 0],
                      !.disp = [nid \in Ids(sd.struct) |-> <<0, 0>>]]
  /\ UNCHANGED outside

\* lines 141-144 and 172-179: the system to solve is set up
SdAssembled ==
  /\ sd.pc = "entry"
  /\ ~HasZeroLengthSpring(sd.struct)
  /\ ~(sd.has_scipy /\ Len(free_dofs(sd.struct)) = 0)
  /\ sd' = [sd EXCEPT !.pc = "first"]
  /\ UNCHANGED outside

\* what a library solve that returned leaves behind
SolveReturned(call, n_attempts, n_regularized) ==
  {[call EXCEPT !.pc = "check", !.attempts = n_attempts,
                !.regularized = n_regularized, !.raw = sol, !.finite = fin] :
     sol \in Solutions(call.has_scipy, call.struct),
     fin \in IF NoFreeDof(call.struct) THEN {TRUE} ELSE BOOLEAN}

\* lines 150 and 182: the first solve
SdFirst ==
  /\ sd.pc = "first"
  /\ \E outcome \in SolverOutcomes(sd.has_scipy, sd.struct) :
       IF outcome = "solved"
         THEN sd' \in SolveReturned(sd, 1, 0)
         ELSE sd' = [sd EXCEPT !.pc = "retry", !.attempts = 1, !.handler = outcome]
  /\ UNCHANGED outside

\* lines 152-160 and 185-190: the solve of the regularized system
SdRetry ==
  /\ sd.pc = "retry"
  /\ \E outcome \in SolverOutcomes(sd.has_scipy, sd.struct) :
       IF outcome = "solved"
         THEN sd' \in SolveReturned(sd, sd.attempts + 1, sd.regularized + 1)
         ELSE sd' = [sd EXCEPT !.pc = "raised", !.attempts = sd.attempts + 1,
                               !.regularized = sd.regularized + 1,
                               !.error = RetryError(sd.handler, outcome)]
  /\ UNCHANGED outside

\* lines 162-164 and 192-193: NaN/Inf in the solution
SdNonFinite ==
  /\ sd.pc = "check"
  /\ ~sd.finite
  /\ sd' = [sd EXCEPT !.pc = "raised", !.error = "NonFinite"]
  /\ UNCHANGED outside

\* lines 166-168 and 195-196: the results are built and returned
SdReturn ==
  /\ sd.pc = "check"
  /\ sd.finite
  /\ LET u == IF sd.has_scipy THEN Scatter(sd.struct, sd.raw) ELSE sd.raw
     IN sd' = [sd EXCEPT !.pc = "returned", !.u = u, !.disp = DispOf(sd.struct, u)]
  /\ UNCHANGED outside

SolveNext ==
  \/ SdZeroLength
  \/ SdNoFree
  \/ SdAssembled
  \/ SdFirst
  \/ SdRetry
  \/ SdNonFinite
  \/ SdReturn

SolveSpec == SolveInit /\ [][SolveNext]_vars

\* ------------------------------------------------ the scoring on its own
\* Floats are modelled as the naturals with at most MantissaBits significant
\* bits (float64 has 53).  Ulp(x) is the spacing of these numbers at x.
RECURSIVE Ulp(_)
Ulp(x) == IF x < 2 ^ MantissaBits THEN 1 ELSE 2 * Ulp(x \div 2)

\* the float nearest to x, the one with the even mantissa when x is halfway:
\* the result of a float addition whose exact result is x
Fl(x) ==
  LET ulp == Ulp(x)
      lo == (x \div ulp) * ulp
  IN IF 2 * (x - lo) < ulp THEN lo
     ELSE IF 2 * (x - lo) > ulp THEN lo + ulp
     ELSE IF (lo \div ulp) % 2 = 0 THEN lo ELSE lo + ulp

\* the energies a stored spring can have; they are even, so that 0.5 * E is
\* E \div 2 without rounding, as halving a float is
EnergyValues == {0, 2, 6}

\* optimizer.py line 49: key = (min(sp.i, sp.j), max(sp.i, sp.j))
CanonicalKey(sp) == <<Min2(sp[1], sp[2]), Max2(sp[1], sp[2])>>

\* variant: the key is the pair as it is stored
RECURSIVE _spring_energies_Stored(_, _, _, _)
_spring_energies_Stored(springs, E, q, energies) ==
  IF q > Len(springs) THEN energies
  ELSE LET key == springs[q]
       IN _spring_energies_Stored(springs, E, q + 1,
            IF key \in DOMAIN energies
              THEN [energies EXCEPT ![key] = Fl(@ + E[q])]
              ELSE energies @@ (key :> E[q]))

\* lines 42-51: the loop over the stored springs from position q on, with
\* energies[key] = energies.get(key, 0.0) + E
RECURSIVE _spring_energies(_, _, _, _)
_spring_energies(springs, E, q, energies) ==
  IF q > Len(springs) THEN energies
  ELSE LET key == CanonicalKey(springs[q])
       IN _spring_energies(springs, E, q + 1,
            IF key \in DOMAIN energies
              THEN [energies EXCEPT ![key] = Fl(@ + E[q])]
              ELSE energies @@ (key :> E[q]))

\* lines 55-61: the loop over the entries `keys` still to visit
RECURSIVE _node_scores(_, _, _)
_node_scores(energies, keys, scores) ==
  IF keys = {} THEN scores
  ELSE LET key == CHOOSE k \in keys : TRUE
           half == energies[key] \div 2
           s1 == IF key[1] \in DOMAIN scores
                   THEN [scores EXCEPT ![key[1]] = Fl(@ + half)] ELSE scores
           s2 == IF key[2] \in DOMAIN s1
                   THEN [s1 EXCEPT ![key[2]] = Fl(@ + half)] ELSE s1
       IN _node_scores(energies, keys \ {key}, s2)

\* the spring lists handed to the scoring for structure s: its own list,
\* as it is and with one more stored spring between two nodes already
\* joined, in either orientation
SpringLists(s) ==
  {s.springs \o extra :
     extra \in {<<>>} \cup {<<sp>> : sp \in Range(s.springs)}
                      \cup {<<<<sp[2], sp[1]>>>> : sp \in Range(s.springs)}}

\* the scoring is called on a structure that the solver accepted
EnergyInit ==
  /\ \E s \in {c \in SolveInputs : ~HasZeroLengthSpring(c)} :
       \E springs \in SpringLists(s) :
         \E E \in [1..Len(springs) -> EnergyValues] :
           en = Scoring("score", Ids(s), springs, E)
  /\ pc = "en_call"
  /\ struct = NoStruct
  /\ protected = {}
  /\ target_mass = 0
  /\ max_steps = 1
  /\ start_mass = 0
  /\ current = NoStruct
  /\ snapshot = NoStruct
  /\ disp = {}
  /\ steps = 0
  /\ stalled = 0
  /\ removable = <<>>
  /\ pool = <<>>
  /\ attempt_k = 0
  /\ attempt = 0
  /\ removed = 0
  /\ success = FALSE
  /\ candidates = <<>>
  /\ cidx = 0
  /\ ret = NoRet
  /\ solveLog = {}
  /\ committed = <<>>
  /\ aliased = FALSE
  /\ cancel_requested = FALSE
  /\ k_in = NoK
  /\ k_out = 0
  /\ sd = NoSolve

\* lines 237-238: energies = _spring_energies(...); scores = _node_scores(...)
EnergyApply ==
  /\ en.pc = "score"
  /\ LET energies == _spring_energies(en.springs, en.E, 1, <<>>)
     IN en' = [en EXCEPT !.pc = "scored",
                         !.energies = energies,
                         !.scores = _node_scores(energies, DOMAIN energies,
                                                 [n \in en.ids |-> 0])]
  /\ UNCHANGED <<args, run, cancel_requested, k_in, k_out, sd>>

EnergySpec == EnergyInit /\ [][EnergyApply]_vars

TypeOK ==
  /\ pc \in {"start", "validate_conn", "validate_solve", "loop", "attempt",
             "attempt_end", "batch_solve", "trial", "finish", "done"}
  /\ steps \in 0..MaxStepsBound
  /\ protected \subseteq NodeIds

\* ------------------------------------------------------------ properties
Last(seq) == seq[Len(seq)]

Validated == committed # <<>>

Degree(s, n) == Cardinality(adjacency(s)[n])

ProtectedPresent(s) == (protected \cap Ids(struct)) \subseteq Ids(s)

\* every protected node is reachable from every other one
ProtectedConnected(s) ==
  /\ ProtectedPresent(s)
  /\ \A p \in protected \cap Ids(s) : protected \cap Ids(s) \subseteq _dfs(adjacency(s), {p})

Solved(s) == [s |-> s, ok |-> TRUE] \in solveLog

\* C1: no operation of the optimizer removes a protected node: every
\* protected id of the input structure is a node of the working structure,
\* of the snapshot and of the returned structure, in every state of the run.
C1_ProtectedNeverRemoved ==
  /\ current # NoStruct => ProtectedPresent(current)
  /\ snapshot # NoStruct => ProtectedPresent(snapshot)
  /\ ret.structure # NoStruct => ProtectedPresent(ret.structure)

\* a run that pruned a neighbour away from a protected node and returned it
C1_Witness ==
  /\ pc = "done"
  /\ ret.status = "target_reached"
  /\ Len(committed) >= 2
  /\ \E p \in protected : Degree(struct, p) > 0 /\ Degree(ret.structure, p) = 0

\* C2 (as stated): in every committed state and in every non-null returned
\* structure all protected ids are present and lie in one component.  (A
\* committed structure is the last of the history when it is committed, at
\* the loop head.)
C2_Original ==
  /\ pc = "loop" => ProtectedConnected(Last(committed))
  /\ ret.structure # NoStruct => ProtectedConnected(ret.structure)

\* C2 (amended): the same for every committed state and every structure
\* returned after the initial validation; the structure handed back by the
\* already-at-target return is not validated.
C2_ProtectedConnected ==
  /\ pc = "loop" => ProtectedConnected(Last(committed))
  /\ (ret.structure # NoStruct /\ ret.status # "already")
       => ProtectedConnected(ret.structure)

\* the final pruning changed a structure with two or more protected nodes
C2_Witness ==
  /\ pc = "done"
  /\ ret.status = "target_reached"
  /\ Cardinality(protected) >= 2
  /\ ret.structure # Last(committed)

\* C3: whenever the driver is between attempts (loop head, before a batch
\* attempt, in the stagnation scan, at the loop exit) the working structure
\* is one whose solve succeeded and disp is the result for exactly that
\* structure, also right after a rolled-back attempt.
C3_DispMatchesCurrent ==
  pc \in {"loop", "attempt", "trial", "finish"}
    => /\ Solved(current)
       /\ disp = Ids(current)

\* back at the loop head after an accepted removal that followed a failed solve
C3_Witness ==
  /\ pc = "loop"
  /\ steps >= 1
  /\ \E e \in solveLog : ~e.ok /\ Ids(e.s) # Ids(current)

\* C4: every structure returned after the initial validation was solved
\* successfully after its last change, the final pruning included.
C4_ReturnedSolved ==
  (pc = "done" /\ ret.status \in {"target_reached", "stuck", "max_steps", "no_removable"})
    => Solved(ret.structure)

\* C5: a newly committed structure has a proper subset of the nodes of the
\* one before it and no more mass; steps is the number of acceptances; after
\* a rejected attempt node set and mass are those of the last commit.
C5_Monotonic ==
  Validated
    => /\ (pc = "loop" /\ Len(committed) >= 2)
            => LET before == committed[Len(committed) - 1]
                   after == committed[Len(committed)]
               IN /\ Ids(after) \subseteq Ids(before)
                  /\ Ids(after) # Ids(before)
                  /\ total_mass(after) <= total_mass(before)
       /\ steps = Len(committed) - 1
       /\ pc \in {"loop", "attempt", "trial", "finish"}
            => /\ Ids(current) = Ids(Last(committed))
               /\ total_mass(current) = total_mass(Last(committed))

\* an acceptance that removed only massless nodes, after a failed solve
C5_Witness ==
  /\ Len(committed) >= 2
  /\ total_mass(committed[Len(committed)]) = total_mass(committed[Len(committed) - 1])
  /\ \E e \in solveLog : ~e.ok

\* C6: after a failed batch attempt the working structure is exactly the
\* snapshot taken at its start, which is the last committed structure; the
\* stagnation scan and the Stuck return see that structure.
C6_Rollback ==
  /\ (pc = "attempt" /\ attempt >= 1)
       => /\ current = snapshot
          /\ snapshot = Last(committed)
  /\ pc = "trial" => current = snapshot /\ snapshot = Last(committed)
  /\ ret.status = "stuck" => ret.structure = snapshot /\ snapshot = Last(committed)

\* a batch that removed nodes, was pruned, failed to solve and was reverted
C6_Witness ==
  /\ pc = "attempt"
  /\ attempt >= 1
  /\ removed >= 1
  /\ \E e \in solveLog :
       ~e.ok /\ Cardinality(Ids(e.s)) + removed < Cardinality(Ids(current))

\* C7: with target_mass >= total mass the call returns the caller's
\* structure, 0 steps and the already-at-target status at once: no copy is
\* made, nothing is validated, solved or committed.
C7_AlreadyAtTarget ==
  total_mass(struct) <= target_mass
    => /\ pc \in {"start", "done"}
       /\ current = NoStruct
       /\ solveLog = {}
       /\ committed = <<>>
       /\ pc = "done" => ret = Returned(struct, 0, "already")

\* the early return of a structure whose protected nodes are not connected
C7_Witness ==
  /\ pc = "done"
  /\ ret.status = "already"
  /\ ~is_connectivity_ok(ret.structure, protected)

Accepted == IF committed = <<>> THEN 0 ELSE Len(committed) - 1

\* C8: target-reached comes with mass <= target; max_steps comes with mass >
\* target, steps = max_steps and the committed structure; the returned step
\* count is at most max_steps and is the number of accepted iterations.
C8_StatusMatches ==
  pc = "done"
    => /\ ret.status = "target_reached" => total_mass(ret.structure) <= target_mass
       /\ ret.status = "max_steps"
            => /\ total_mass(ret.structure) > target_mass
               /\ ret.steps = max_steps
               /\ ret.structure = Last(committed)
       /\ ret.steps <= max_steps
       /\ ret.steps = Accepted
       /\ ret.steps = steps

\* the step bound hit after two accepted iterations
C8_Witness ==
  /\ pc = "done"
  /\ ret.status = "max_steps"
  /\ ret.steps >= 2

\* C9: every call returns; the batch loop makes at most rollback_halving + 1
\* attempts per iteration and the stagnation scan ends with its list.
C9_Terminates ==
  /\ <>(pc = "done")
  /\ [](attempt <= rollback_halving + 1 /\ cidx <= Len(candidates) + 1)

\* a return after accepted removals and an exhausted stagnation scan
C9_Witness ==
  /\ pc = "done"
  /\ ret.status = "stuck"
  /\ ret.steps >= 1

\* the single-node trial of candidate nid on s is rejected
CandidateFails(s, nid) ==
  \/ nid \in protected
  \/ nid \notin Ids(s)
  \/ ~is_connectivity_ok(remove_node(s, nid), protected)
  \/ [s |-> TrialOf(s, nid, protected), ok |-> FALSE] \in solveLog

\* C10: Stuck is returned exactly when all batch attempts of the iteration
\* were rejected and every candidate of the stagnation list fails alone; the
\* structure returned is the last committed one.  (stalled is positive only
\* from the start of a stagnation scan until a candidate is accepted; during
\* the scan the candidate just passed is a rejected one.)
C10_StuckExactly ==
  /\ (pc = "trial" \/ ret.status = "stuck")
       => /\ ~success
          /\ attempt = rollback_halving + 1
          /\ stalled >= 1
          /\ cidx > 1 => CandidateFails(current, candidates[cidx - 1])
  /\ ret.status = "stuck"
       => /\ pc = "done"
          /\ \A i \in 1..Len(candidates) : CandidateFails(current, candidates[i])
          /\ ret.structure = Last(committed)
          /\ ret.structure = current
  /\ (pc = "done" /\ ret.status # "stuck") => stalled = 0

\* Stuck after a scan that rejected one candidate for connectivity and
\* another for a failed solve
C10_Witness ==
  /\ pc = "done"
  /\ ret.status = "stuck"
  /\ \E i, j \in 1..Len(candidates) :
       /\ ~is_connectivity_ok(remove_node(current, candidates[i]), protected)
       /\ is_connectivity_ok(remove_node(current, candidates[j]), protected)

\* C11: once the caller has asked the run to stop at an iteration boundary,
\* no further iteration is started: the call returns from that boundary with
\* the committed structure and the Cancelled status.
C11_CancelStops ==
  cancel_requested
    => /\ pc \in {"loop", "done"}
       /\ pc = "done"
            => /\ ret.status = "cancelled"
               /\ ret.structure = Last(committed)

\* s is what is left of the caller's structure: its springs join nodes of s
\* and are the caller's springs between surviving nodes, in their order; the
\* surviving nodes have their ids and attributes; removing an absent id is
\* a no-op
Survivor(s) ==
  /\ \A q \in 1..Len(s.springs) : s.springs[q][1] \in Ids(s) /\ s.springs[q][2] \in Ids(s)
  /\ s.springs = SelectSeq(struct.springs, LAMBDA sp : sp[1] \in Ids(s) /\ sp[2] \in Ids(s))
  /\ Ids(s) \subseteq Ids(struct)
  /\ \A n \in Ids(s) : s.nodes[n] = struct.nodes[n]
  /\ \A n \in NodeIds \ Ids(s) : remove_node(s, n) = s

\* C12: in every state of the optimizer the working structure, the snapshot
\* and the returned structure have only springs between present nodes, their
\* spring list is the sub-sequence of the original springs whose two ends
\* survive, and every surviving node keeps its id and attributes.
C12_SpringsFollowNodes ==
  /\ current # NoStruct => Survivor(current)
  /\ snapshot # NoStruct => Survivor(snapshot)
  /\ ret.structure # NoStruct => Survivor(ret.structure)

\* a returned structure that kept a spring and lost a node that was the
\* first end of one spring and the second end of another
C12_Witness ==
  /\ pc = "done"
  /\ ret.structure # NoStruct
  /\ Len(ret.structure.springs) >= 1
  /\ \E n \in Ids(struct) \ Ids(ret.structure) :
       \E q1, q2 \in 1..Len(struct.springs) :
          struct.springs[q1][1] = n /\ struct.springs[q2][2] = n

NoSupport(s) == \A n \in Ids(s) : ~s.nodes[n].fixed_x /\ ~s.nodes[n].fixed_z

\* C13: the solve of a structure that has a spring and no support fails, so
\* the solvability check of the optimizer never accepts such a structure,
\* neither as the initial structure nor as a trial.
C13_RigidBodyRejected ==
  \A e \in solveLog : (NoSupport(e.s) /\ Len(e.s.springs) >= 1) => ~e.ok

\* C14: the solve of a structure with a spring between two coinciding nodes
\* fails whatever the fixity flags are; called on such a structure with mass
\* above the target and connected protected nodes, the optimizer returns
\* (null, 0, not solvable) from the initial validation: nothing is committed
\* and no node is removed.
C14_ZeroLengthAborts ==
  /\ \A e \in solveLog : HasZeroLengthSpring(e.s) => ~e.ok
  /\ (/\ HasZeroLengthSpring(struct)
      /\ total_mass(struct) > target_mass
      /\ is_connectivity_ok(struct, protected))
       => /\ pc \in {"start", "validate_conn", "validate_solve", "done"}
          /\ committed = <<>>
          /\ current \in {NoStruct, struct}
          /\ pc = "done" => ret = Returned(NoStruct, 0, "not_solvable")

\* the abort for a structure with a zero-length spring and every DOF fixed
C14_Witness ==
  /\ pc = "done"
  /\ ret.status = "not_solvable"
  /\ HasZeroLengthSpring(struct)
  /\ NoFreeDof(struct)

\* C16: the stagnation counter counts the iterations, up to the last one,
\* in which no halving level accepted a batch (at the loop head `success`
\* and `attempt` are still those of the iteration that just ended), and the
\* stagnation list is the first min(|removable|, 8000) candidates once the
\* counter has reached the patience, the first min(|removable|, 2000) below.
C16_StagnationCounts ==
  /\ (pc = "loop" /\ steps >= 1 /\ ~success) => stalled >= 1
  /\ pc = "trial"
       => Len(candidates) = Min2(Len(removable),
                                 IF stalled >= stagnation_patience THEN 8000 ELSE 2000)

\* b is ceil(0.012 * n) clamped to 8..120
IsBase(b, n) ==
  /\ b \in 8..120
  /\ b > 8 => 1000 * (b - 1) < 12 * n
  /\ b < 120 => 12 * n <= 1000 * b

\* the caps the two rule sets put on the batch size for these arguments
Caps(in) ==
  {c \in {25, 8, 1, 10, 5} :
     \/ c = 25 /\ (in.cur_mass - in.target) * 100 < 20 * in.cur_mass
     \/ c = 8 /\ (in.cur_mass - in.target) * 100 < 8 * in.cur_mass
     \/ c = 1 /\ (in.cur_mass - in.target) * 100 < 3 * in.cur_mass
     \/ c = 10 /\ in.cur_mass * 100 < 75 * in.start
     \/ c = 5 /\ in.cur_mass * 100 < 65 * in.start
     \/ c = 1 /\ in.cur_mass * 100 < 55 * in.start}

RECURSIVE Pow2(_)
Pow2(n) == IF n = 0 THEN 1 ELSE 2 * Pow2(n - 1)

\* the batch size the iteration started with, from the structure it started on
IterationK(s) == compute_k(total_mass(s), Cardinality(Ids(s)), start_mass, target_mass)

PoolPrefix(n) == {pool[i] : i \in 1..n}

\* C18: an iteration makes at most rollback_halving + 1 = 9 batch attempts;
\* the attempt sizes are k, k div 2, k div 4, ..., never below 1; an attempt
\* that reaches the solve has removed, before the degree-0 pruning, at least
\* one and at most attempt_k nodes, namely the first ones of the pool in its
\* order, and each of these removals left the protected nodes connected.
C18_BatchAttempts ==
  /\ attempt <= rollback_halving + 1
  /\ pc = "attempt"
       => attempt_k = Max2(1, IterationK(current) \div Pow2(attempt))
  /\ pc \in {"attempt_end", "batch_solve"}
       => /\ attempt >= 1
          /\ attempt_k = Max2(1, IterationK(snapshot) \div Pow2(attempt - 1))
          /\ removed <= attempt_k
          /\ removed <= Len(pool)
          /\ \A j \in 1..removed :
               is_connectivity_ok(RemoveAll(snapshot, PoolPrefix(j)), protected)
  /\ (pc = "attempt_end" /\ removed >= 1)
       => current = RemoveAll(snapshot, PoolPrefix(removed))
  /\ pc = "batch_solve"
       => /\ removed >= 1
          /\ PoolPrefix(removed) \cap Ids(current) = {}
          /\ \A n \in Ids(snapshot) \ (Ids(current) \cup PoolPrefix(removed)) :
               Degree(RemoveAll(snapshot, PoolPrefix(removed)), n) = 0
          /\ is_connectivity_ok(current, protected)

\* the third attempt of an iteration, cut by its size 2 to the first two of
\* at least three pooled candidates
C18_Witness ==
  /\ pc = "batch_solve"
  /\ attempt = 3
  /\ attempt_k = 2
  /\ removed = 2
  /\ Len(pool) >= 3

\* the nodes of s joined to a node of S by a path of springs: those that lie
\* in every set of nodes that contains S and is cut by no spring
Reach(s, S) ==
  LET closed == {C \in SUBSET Ids(s) :
                   \A q \in 1..Len(s.springs) :
                      s.springs[q][1] \in C <=> s.springs[q][2] \in C}
  IN {n \in Ids(s) : \A C \in closed : (S \cap Ids(s)) \subseteq C => n \in C}

\* the candidates the iteration on s works with
ExpectedRemovable(s) ==
  LET present == protected \cap Ids(s)
      supports == {n \in present : s.nodes[n].fixed_x \/ s.nodes[n].fixed_z}
      loads == present \ supports
      core == (Ids(s) \ protected) \cap Reach(s, supports) \cap Reach(s, loads)
  IN IF core # {} THEN core ELSE Ids(s) \ protected

\* C19: the candidate list of an iteration holds no protected node and is
\* exactly the non-protected nodes joined by springs both to a support and
\* to a loaded node when there is such a node, all non-protected nodes when
\* there is none; an iteration ends with the no-removable status exactly
\* when every node of the structure is protected.
C19_Candidates ==
  /\ Range(removable) \cap protected = {}
  /\ (pc = "attempt" /\ attempt = 0)
       => /\ Range(removable) = ExpectedRemovable(current)
          /\ Len(removable) = Cardinality(Range(removable))
          /\ ~(Ids(current) \subseteq protected)
  /\ ret.status = "no_removable"
       => /\ Ids(ret.structure) \subseteq protected
          /\ ret.structure = current
          /\ total_mass(current) > target_mass
          /\ steps < max_steps

\* an iteration whose candidates are fewer than the non-protected nodes
C19_Witness ==
  /\ pc = "attempt"
  /\ attempt = 0
  /\ Range(removable) # Ids(current) \ protected

\* s has no non-protected node of degree d or less
NoInert(s, d) ==
  LET adj == adjacency(s)
  IN \A n \in Ids(s) \ protected : Cardinality(adj[n]) > d

\* C20 (as stated): after every accepted iteration the committed structure
\* has no non-protected node of degree 0, and the structure returned with
\* the target-reached status has no non-protected node of degree <= 1.
C20_Original ==
  /\ (pc = "loop" /\ Len(committed) >= 2) => NoInert(Last(committed), 0)
  /\ ret.status = "target_reached" => NoInert(ret.structure, 1)

\* C20 (amended): the same, the second part unless the final cleanup has
\* used up its prune_rounds_final = 120 rounds, in which it removed at least
\* 120 nodes: it stops after 120 rounds, fixpoint or not.
C20_PrunedWithinRounds ==
  /\ (pc = "loop" /\ Len(committed) >= 2) => NoInert(Last(committed), 0)
  /\ ret.status = "target_reached"
       => \/ NoInert(ret.structure, 1)
          \/ Cardinality(Ids(Last(committed)) \ Ids(ret.structure)) >= prune_rounds_final

\* the final cleanup took all 120 rounds to strip a chain of 120 nodes
C20_Witness ==
  /\ pc = "done"
  /\ ret.status = "target_reached"
  /\ Cardinality(Ids(Last(committed)) \ protected) = prune_rounds_final
  /\ Ids(ret.structure) = protected

\* C21: a call of solve_displacements makes at most two solves, the
\* regularized one only after the first one raised and only once; a call
\* whose regularized solve raised, or whose solution is not finite, ends
\* with a Singular or NonFinite error and never with a result.
C21_RetryOnce ==
  /\ sd.attempts <= 2
  /\ sd.regularized <= 1
  /\ sd.regularized = 1 => sd.attempts = 2 /\ sd.handler # "none"
  /\ (sd.pc = "raised" /\ sd.attempts = 2) => sd.error \in {"Singular", "NonFinite"}
  /\ (sd.pc \in {"raised", "returned"} /\ ~sd.finite)
       => sd.pc = "raised" /\ sd.error = "NonFinite"

\* the number of ids of s below nid
Below(s, nid) == Cardinality({m \in Ids(s) : m < nid})

\* C22: a call of solve_displacements that returns gives a vector u over
\* the 2N DOFs; the node with p ids below it has the displacement
\* (u[2p], u[2p+1]); the component of every fixed DOF is 0, and u is all
\* zeros when no DOF is free.
C22_DofLayout ==
  sd.pc = "returned" =>
    LET s == sd.struct
    IN /\ DOMAIN sd.u = 0..(2 * Cardinality(Ids(s)) - 1)
       /\ DOMAIN sd.disp = Ids(s)
       /\ \A nid \in Ids(s) :
            /\ sd.disp[nid] = <<sd.u[2 * Below(s, nid)], sd.u[2 * Below(s, nid) + 1]>>
            /\ s.nodes[nid].fixed_x => sd.disp[nid][1] = 0
            /\ s.nodes[nid].fixed_z => sd.disp[nid][2] = 0
       /\ NoFreeDof(s) => \A d \in DOMAIN sd.u : sd.u[d] = 0

\* a returned solve of a structure whose ids have a gap, with a fixed DOF
\* that follows a free one and a free DOF that moved
C22_Witness ==
  /\ sd.pc = "returned"
  /\ sd.attempts >= 1
  /\ \E a, b \in Ids(sd.struct) : a + 1 < b /\ a + 1 \notin Ids(sd.struct)
  /\ \E d, e \in DOMAIN sd.u :
       d < e /\ e \in fixed_dofs(sd.struct) /\ d \notin fixed_dofs(sd.struct)
  /\ \E d \in DOMAIN sd.u : sd.u[d] # 0

\* the sum of the values of a map
RECURSIVE Total(_)
Total(f) ==
  IF DOMAIN f = {} THEN 0
  ELSE LET a == CHOOSE b \in DOMAIN f : TRUE
       IN f[a] + Total([b \in DOMAIN f \ {a} |-> f[b]])

\* the positions of the stored springs between the two nodes of key
StoredAt(springs, key) ==
  {q \in 1..Len(springs) : {springs[q][1], springs[q][2]} = {key[1], key[2]}}

\* the keys of the pairs of nodes joined by a stored spring
JoinedPairs(ids, springs) ==
  {<<a, b>> \in ids \X ids : a < b /\ StoredAt(springs, <<a, b>>) # {}}

\* the entries of the energy map that node n is an end of
EntriesAt(energies, n) ==
  [key \in {k \in DOMAIN energies : n \in {k[1], k[2]}} |-> energies[key]]

\* C23 as stated: the energy map has one entry for each pair of nodes
\* joined by a stored spring, keyed (lower id, higher id) whatever the stored
\* orientation, holding the sum of the energies of the springs stored for
\* that pair; each node's score is half of every entry it is an end of, and
\* the scores add up to the energies.
C23_Original ==
  en.pc = "scored" =>
    /\ DOMAIN en.energies = JoinedPairs(en.ids, en.springs)
    /\ \A key \in DOMAIN en.energies :
         en.energies[key] = SumOver(en.E, StoredAt(en.springs, key))
    /\ \A n \in en.ids : 2 * en.scores[n] = Total(EntriesAt(en.energies, n))
    /\ Total(en.scores) = Total(en.energies)

\* no float addition of the scoring can round: every sum of spring energies
\* is below the first natural that is not a float
NoRounding == SumOver(en.E, 1..Len(en.E)) < 2 ^ MantissaBits

\* C23, amended: the energy map has one entry for each pair of nodes joined
\* by a stored spring, keyed (lower id, higher id) whatever the stored
\* orientation; as long as no addition rounds, the entry holds the sum of
\* the energies of the springs stored for that pair, each node's score is
\* half of every entry it is an end of, and the scores add up to the
\* energies.
C23_EnergyMap ==
  en.pc = "scored" =>
    /\ DOMAIN en.energies = JoinedPairs(en.ids, en.springs)
    /\ NoRounding =>
         /\ \A key \in DOMAIN en.energies :
              en.energies[key] = SumOver(en.E, StoredAt(en.springs, key))
         /\ \A n \in en.ids : 2 * en.scores[n] = Total(EntriesAt(en.energies, n))
         /\ Total(en.scores) = Total(en.energies)

\* a scored list that stores two springs for one pair of nodes, in opposite
\* orientations and both with energy
C23_Witness ==
  /\ en.pc = "scored"
  /\ NoRounding
  /\ \E p, q \in 1..Len(en.springs) :
       /\ p # q
       /\ en.springs[p] = <<en.springs[q][2], en.springs[q][1]>>
       /\ en.E[p] > 0 /\ en.E[q] > 0
  /\ Cardinality(DOMAIN en.energies) >= 2

\* C24: no step of optimize_until_target changes the caller's structure;
\* the call returns no structure exactly when the initial validation failed
\* (protected nodes not connected, or not solvable), and then with 0 steps.
C24_InputUntouched ==
  /\ [][struct' = struct]_vars
  /\ [](pc = "done" =>
          /\ ret.structure = NoStruct <=> ret.status \in {"not_connected", "not_solvable"}
          /\ ret.structure = NoStruct => ret.steps = 0)

\* a return at the target after batch removals, a rollback and a final
\* pruning, all of which changed the working structure
C24_Witness ==
  /\ pc = "done"
  /\ ret.status = "target_reached"
  /\ ret.steps >= 1
  /\ snapshot # NoStruct
  /\ Ids(ret.structure) # Ids(Last(committed))
  /\ Ids(Last(committed)) # Ids(struct)
====
